---- MODULE Spec2Model ----
(***************************************************************************)
(* Booking lifecycle, inventory and payment capture of ticket-bari-server. *)
(*                                                                         *)
(* The persistent state is the three MongoDB collections the controllers   *)
(* mutate (tickets, bookings, transactions) and the payment intents held   *)
(* by Stripe.  Every Express handler is an async function: it runs         *)
(* synchronously up to an `await`, and other requests are served while it  *)
(* waits.  A handler is therefore a sequence of steps, one per database or *)
(* Stripe round trip, and `workers` holds the position and the local       *)
(* variables (the Mongoose documents it loaded) of each request in flight. *)
(* A Mongoose document is a private copy: doc.save() sends a $set of the   *)
(* paths the handler modified, validates them against the schema, and      *)
(* throws DocumentNotFoundError when the document is gone.                 *)
(***************************************************************************)
EXTENDS Integers, FiniteSets, Sequences, TLC

VARIABLES
    tickets,       \* Ticket collection: _id -> document
    bookings,      \* Booking collection: _id -> document
    transactions,  \* Transaction collection: a set of documents
    intents,       \* Stripe: payment intent id -> status
    fraud,         \* User collection: the vendors whose isFraud is true
    lastId,        \* ObjectIds handed out so far, per collection
    now,           \* the clock read by new Date()
    workers        \* the requests in flight and the last response of each

vars ==
    <<tickets, bookings, transactions, intents, fraud, lastId, now, workers>>
db == <<tickets, bookings, transactions>>

(* ------------------------------ bounds --------------------------------- *)
MaxTickets  == 1   \* ticket documents ever created
MaxBookings == 2   \* booking documents ever created
MaxIntents  == 1   \* Stripe payment intents ever created
MaxQty      == 2   \* largest quantity a vendor enters for a ticket
MaxTime     == 1   \* the clock runs over 0..MaxTime
ScenarioQty == 3   \* the ticket's quantity when the capture scenario starts
Price       == 100 \* the unit price vendors ask

TicketIds  == 1..MaxTickets
BookingIds == 1..MaxBookings
IntentIds  == 1..MaxIntents
Workers    == {"w1", "w2"}
Users      == {"u1", "u2"}
Vendors    == {"v1", "v2"}
\* The vendors who list tickets; the other vendors only call the handlers.
Sellers    == {"v1"}

\* The departure instant every vendor enters (departureDate + departureTime).
DepartureAt == 0
\* toggleAdvertiseTicket refuses to advertise once this many approved tickets
\* are advertised.
AdvertiseLimit == 6

NoDoc == [exists |-> FALSE]

\* A worker's record: the handler it runs, its position, the request's
\* arguments (caller, :id or body id, paymentIntentId, quantity), the
\* documents it holds (booking, populated ticket, ticket) and its response.
Idle == [op |-> "idle", pc |-> "idle", user |-> "", id |-> 0, intent |-> 0,
         qty |-> 0, bk |-> NoDoc, pop |-> NoDoc, tk |-> NoDoc,
         code |-> 0, msg |-> ""]

(* --------------------------- schema, helpers --------------------------- *)

\* ticketSchema.quantity: min 0, checked by save() on the modified path.
QuantityValidMutant(q) == TRUE
QuantityValid(q) == q >= 0

\* transactionSchema.transactionId: unique index.
TransactionIdFree(i) == \A x \in transactions : x.transactionId # i

\* The expiry test every handler repeats: departure instant < new Date().
ExpiredMutant(departure) == FALSE
Expired(departure) == departure < now

\* The stock test of createBooking: bookingQuantity > ticket.quantity
\* refuses the request.
EnoughQuantityMutant(ticket, q) == TRUE
EnoughQuantity(ticket, q) == q <= ticket.quantity

\* The status test of acceptBooking, rejectBooking and cancelBooking:
\* booking.status !== 'pending' refuses the request.
IsPendingMutant(booking) == TRUE
IsPending(booking) == booking.status = "pending"

\* The ownership test of the buyer's handlers:
\* booking.user.toString() !== req.user._id.toString() refuses the request.
OwnedByMutant(booking, u) == TRUE
OwnedBy(booking, u) == booking.user = u

\* createBooking: const totalPrice = ticket.price * bookingQuantity
TotalPriceMutant(price, q) == price
TotalPrice(price, q) == price * q

\* checkFraudStatus, the middleware in front of the vendor's ticket routes:
\* a vendor whose isFraud is set is answered 403.
checkFraudStatus(v) == v \in fraud

Busy(w) == workers[w].pc \notin {"idle", "done"}

\* The handler sent its response: the request is over, and what is left
\* of it is who asked for what, and the status code and the message of the
\* response.
Finish(r, code, msg) ==
    [Idle EXCEPT !.op = r.op, !.user = r.user, !.id = r.id, !.qty = r.qty,
                 !.pc = "done", !.code = code, !.msg = msg]

Respond(w, code, msg) ==
    workers' = [workers EXCEPT ![w] = Finish(@, code, msg)]

\* The record of a request that just arrived.
Call(op, user, id, intent, qty) ==
    [Idle EXCEPT !.op = op, !.user = user, !.id = id, !.intent = intent,
                 !.qty = qty]

FindTicket(t) == IF t \in DOMAIN tickets THEN tickets[t] ELSE NoDoc

FindBooking(b) == IF b \in DOMAIN bookings THEN bookings[b] ELSE NoDoc

\* .populate('ticket'): the ticket document the booking references, null
\* when it was deleted.
Populate(bk) == IF bk.exists THEN FindTicket(bk.ticket) ELSE NoDoc

\* Requests in flight at one of the positions pcs.
InFlight(pcs) ==
    Cardinality({w \in DOMAIN workers : workers[w].pc \in pcs})

Remove(f, k) == [x \in DOMAIN f \ {k} |-> f[x]]

\* Sum of f[x] over the set S.
RECURSIVE SumOver(_, _)
SumOver(S, f) ==
    IF S = {} THEN 0
    ELSE LET x == CHOOSE y \in S : TRUE IN f[x] + SumOver(S \ {x}, f)

(* -------------------------------- Init --------------------------------- *)
Init ==
    /\ tickets = <<>>
    /\ bookings = <<>>
    /\ transactions = {}
    /\ fraud = {}
    /\ intents = <<>>
    /\ lastId = [ticket |-> 0, booking |-> 0]
    /\ now = 0
    /\ workers = [w \in {"w1"} |-> Idle]

(* ------------------------- ticket handlers ----------------------------- *)

\* createTicket: POST /api/tickets (vendor).  The required-field test
\* rejects a quantity of 0; Ticket.create then validates and inserts.
createTicket(w) ==
    \E v \in Sellers, q \in 0..MaxQty :
        /\ ~Busy(w)
        /\ LET r == Call("createTicket", v, 0, 0, q) IN
           IF checkFraudStatus(v)
           THEN /\ workers' = [workers EXCEPT ![w] =
                        Finish(r, 403, "Your account has been marked as fraud")]
                /\ UNCHANGED <<tickets, lastId>>
           ELSE IF q = 0
           THEN /\ workers' = [workers EXCEPT ![w] =
                        Finish(r, 400, "Please provide all required fields")]
                /\ UNCHANGED <<tickets, lastId>>
           ELSE /\ lastId.ticket < MaxTickets
                /\ lastId' = [lastId EXCEPT !.ticket = @ + 1]
                /\ tickets' = tickets @@ (lastId.ticket + 1 :>
                       [exists |-> TRUE, vendor |-> v, quantity |-> q,
                        price |-> Price,
                        verificationStatus |-> "pending",
                        isAdvertised |-> FALSE,
                        departure |-> DepartureAt])
                /\ workers' = [workers EXCEPT ![w] =
                        Finish(r, 201, "Ticket created successfully")]
        /\ UNCHANGED <<fraud, bookings, transactions, intents, now>>

\* The ticket ids the admin's requests name: the ids vendors were handed,
\* and the tickets listed beyond the advertised ones.
AdminTargets == TicketIds \cup {t \in DOMAIN tickets : t > AdvertiseLimit}

\* approveTicket: PUT /api/tickets/:id/approve (admin), up to the save.
approveTicket(w) ==
    \E t \in AdminTargets :
        /\ ~Busy(w)
        /\ LET r == Call("approveTicket", "admin", t, 0, 0)
               ticket == FindTicket(t) IN
           workers' = [workers EXCEPT ![w] =
              IF ~ticket.exists THEN Finish(r, 404, "Ticket not found")
              ELSE [r EXCEPT !.pc = "approveSave", !.tk = ticket]]
        /\ UNCHANGED <<fraud, db, intents, lastId, now>>

\* approveTicket: ticket.verificationStatus = 'approved'; await ticket.save()
approveTicketSave(w) ==
    /\ workers[w].pc = "approveSave"
    /\ LET t == workers[w].id IN
       IF t \in DOMAIN tickets
       THEN /\ tickets' = [tickets EXCEPT ![t].verificationStatus = "approved"]
            /\ Respond(w, 200, "Ticket approved successfully")
       ELSE /\ Respond(w, 500, "DocumentNotFoundError")
            /\ UNCHANGED tickets
    /\ UNCHANGED <<fraud, bookings, transactions, intents, lastId, now>>

\* rejectTicket: PUT /api/tickets/:id/reject (admin), up to the save.
rejectTicket(w) ==
    \E t \in AdminTargets :
        /\ ~Busy(w)
        /\ LET r == Call("rejectTicket", "admin", t, 0, 0)
               ticket == FindTicket(t) IN
           workers' = [workers EXCEPT ![w] =
              IF ~ticket.exists THEN Finish(r, 404, "Ticket not found")
              ELSE [r EXCEPT !.pc = "rejectTicketSave", !.tk = ticket]]
        /\ UNCHANGED <<fraud, db, intents, lastId, now>>

\* rejectTicket: ticket.verificationStatus = 'rejected'; await ticket.save()
rejectTicketSave(w) ==
    /\ workers[w].pc = "rejectTicketSave"
    /\ LET t == workers[w].id IN
       IF t \in DOMAIN tickets
       THEN /\ tickets' = [tickets EXCEPT ![t].verificationStatus = "rejected"]
            /\ Respond(w, 200, "Ticket rejected successfully")
       ELSE /\ Respond(w, 500, "DocumentNotFoundError")
            /\ UNCHANGED tickets
    /\ UNCHANGED <<fraud, bookings, transactions, intents, lastId, now>>

\* Ticket.countDocuments({ isAdvertised: true, verificationStatus: 'approved' })
AdvertisedCount ==
    Cardinality({t \in DOMAIN tickets :
                    /\ tickets[t].isAdvertised
                    /\ tickets[t].verificationStatus = "approved"})

\* The limit check of toggleAdvertiseTicket: advertisedCount >= 6 is refused.
LimitReached(count) == count >= AdvertiseLimit

\* toggleAdvertiseTicket: PUT /api/tickets/:id/advertise (admin), up to the
\* count of the advertised tickets or, when un-advertising, up to the save.
toggleAdvertiseTicket(w) ==
    \E t \in AdminTargets :
        /\ ~Busy(w)
        /\ LET r == Call("toggleAdvertiseTicket", "admin", t, 0, 0)
               ticket == FindTicket(t) IN
           workers' = [workers EXCEPT ![w] =
              IF ~ticket.exists THEN Finish(r, 404, "Ticket not found")
              ELSE IF ticket.verificationStatus # "approved"
              THEN Finish(r, 400, "Only approved tickets can be advertised")
              ELSE IF ~ticket.isAdvertised
              THEN [r EXCEPT !.pc = "advertiseCount", !.tk = ticket]
              ELSE [r EXCEPT !.pc = "advertiseSave", !.tk = ticket]]
        /\ UNCHANGED <<fraud, db, intents, lastId, now>>

\* toggleAdvertiseTicket: the count and the limit of advertised tickets.
toggleAdvertiseCount(w) ==
    /\ workers[w].pc = "advertiseCount"
    /\ workers' = [workers EXCEPT ![w] =
          IF LimitReached(AdvertisedCount)
          THEN Finish(@, 400, "Maximum 6 tickets can be advertised at a time")
          ELSE [@ EXCEPT !.pc = "advertiseSave"]]
    /\ UNCHANGED <<fraud, db, intents, lastId, now>>

\* toggleAdvertiseTicket: ticket.isAdvertised = !ticket.isAdvertised;
\* await ticket.save()
toggleAdvertiseSave(w) ==
    /\ workers[w].pc = "advertiseSave"
    /\ LET t == workers[w].id IN
       IF t \in DOMAIN tickets
       THEN /\ tickets' = [tickets EXCEPT
                              ![t].isAdvertised = ~workers[w].tk.isAdvertised]
            /\ Respond(w, 200, IF workers[w].tk.isAdvertised
                               THEN "Ticket removed from advertisement"
                               ELSE "Ticket advertised successfully")
       ELSE /\ Respond(w, 500, "DocumentNotFoundError")
            /\ UNCHANGED tickets
    /\ UNCHANGED <<fraud, bookings, transactions, intents, lastId, now>>

\* markVendorAsFraud: PUT /api/users/:id/mark-fraud (admin), up to the save
\* of the user.  The record's user is the user the request names.
markVendorAsFraud(w) ==
    \E v \in Vendors \cup Users :
        /\ ~Busy(w)
        /\ LET r == Call("markVendorAsFraud", v, 0, 0, 0) IN
           workers' = [workers EXCEPT ![w] =
              IF v \notin Vendors
              THEN Finish(r, 400, "Only vendors can be marked as fraud")
              ELSE [r EXCEPT !.pc = "fraudSave"]]
        /\ UNCHANGED <<fraud, db, intents, lastId, now>>

\* markVendorAsFraud: user.isFraud = true; await user.save()
markVendorAsFraudSave(w) ==
    /\ workers[w].pc = "fraudSave"
    /\ fraud' = fraud \cup {workers[w].user}
    /\ workers' = [workers EXCEPT ![w].pc = "fraudTickets"]
    /\ UNCHANGED <<db, intents, lastId, now>>

\* markVendorAsFraud: Ticket.updateMany({ vendor }, { verificationStatus:
\* 'rejected', isAdvertised: false })
markVendorAsFraudTickets(w) ==
    /\ workers[w].pc = "fraudTickets"
    /\ tickets' = [t \in DOMAIN tickets |->
          IF tickets[t].vendor = workers[w].user
          THEN [tickets[t] EXCEPT !.verificationStatus = "rejected",
                                  !.isAdvertised = FALSE]
          ELSE tickets[t]]
    /\ Respond(w, 200, "Vendor has been marked as fraud. All tickets hidden.")
    /\ UNCHANGED <<fraud, bookings, transactions, intents, lastId, now>>

\* updateTicket: PUT /api/tickets/:id (vendor), up to the save.  The body
\* carries a new quantity, any number the client cares to send.
updateTicket(w) ==
    \E v \in Vendors, t \in TicketIds, q \in -1..MaxQty :
        /\ ~Busy(w)
        /\ LET r == Call("updateTicket", v, t, 0, q)
               ticket == FindTicket(t) IN
           workers' = [workers EXCEPT ![w] =
              IF checkFraudStatus(v)
              THEN Finish(r, 403, "Your account has been marked as fraud")
              ELSE IF ~ticket.exists THEN Finish(r, 404, "Ticket not found")
              ELSE IF ticket.vendor # v
              THEN Finish(r, 403, "Not authorized to update this ticket")
              ELSE IF ticket.verificationStatus = "rejected"
              THEN Finish(r, 403, "Cannot update rejected tickets")
              ELSE [r EXCEPT !.pc = "updateSave", !.tk = ticket]]
        /\ UNCHANGED <<fraud, db, intents, lastId, now>>

\* updateTicket: ticket.quantity = quantity; await ticket.save()
updateTicketSave(w) ==
    /\ workers[w].pc = "updateSave"
    /\ LET t == workers[w].id
           q == workers[w].qty IN
       IF ~QuantityValid(q)
       THEN /\ Respond(w, 500, "Quantity cannot be negative")
            /\ UNCHANGED tickets
       ELSE IF t \in DOMAIN tickets
       THEN /\ tickets' = [tickets EXCEPT ![t].quantity = q]
            /\ Respond(w, 200, "Ticket updated successfully")
       ELSE /\ Respond(w, 500, "DocumentNotFoundError")
            /\ UNCHANGED tickets
    /\ UNCHANGED <<fraud, bookings, transactions, intents, lastId, now>>

\* The bodies a vendor sends to change a ticket's terms: a higher price and
\* a later departure, or the first terms again.
Terms == {[price |-> Price, departure |-> DepartureAt],
          [price |-> 2 * Price, departure |-> MaxTime]}

\* updateTicket with a body that carries a new price and a new departure:
\* the same guards, then the handler sets both on its ticket document.
updateTicketTerms(w) ==
    \E v \in Vendors, t \in TicketIds, body \in Terms :
        /\ ~Busy(w)
        /\ LET r == Call("updateTicket", v, t, 0, 0)
               ticket == FindTicket(t) IN
           workers' = [workers EXCEPT ![w] =
              IF checkFraudStatus(v)
              THEN Finish(r, 403, "Your account has been marked as fraud")
              ELSE IF ~ticket.exists THEN Finish(r, 404, "Ticket not found")
              ELSE IF ticket.vendor # v
              THEN Finish(r, 403, "Not authorized to update this ticket")
              ELSE IF ticket.verificationStatus = "rejected"
              THEN Finish(r, 403, "Cannot update rejected tickets")
              ELSE [r EXCEPT !.pc = "updateTermsSave",
                             !.tk = [ticket EXCEPT
                                       !.price = body.price,
                                       !.departure = body.departure]]]
        /\ UNCHANGED <<fraud, db, intents, lastId, now>>

\* updateTicket: await ticket.save() of the price and the departure.
updateTicketTermsSave(w) ==
    /\ workers[w].pc = "updateTermsSave"
    /\ LET t == workers[w].id IN
       IF t \in DOMAIN tickets
       THEN /\ tickets' = [tickets EXCEPT
                              ![t].price = workers[w].tk.price,
                              ![t].departure = workers[w].tk.departure]
            /\ Respond(w, 200, "Ticket updated successfully")
       ELSE /\ Respond(w, 500, "DocumentNotFoundError")
            /\ UNCHANGED tickets
    /\ UNCHANGED <<fraud, bookings, transactions, intents, lastId, now>>

\* deleteTicket: DELETE /api/tickets/:id (vendor), up to the deleteOne.
deleteTicket(w) ==
    \E v \in Vendors, t \in TicketIds :
        /\ ~Busy(w)
        /\ LET r == Call("deleteTicket", v, t, 0, 0)
               ticket == FindTicket(t) IN
           workers' = [workers EXCEPT ![w] =
              IF checkFraudStatus(v)
              THEN Finish(r, 403, "Your account has been marked as fraud")
              ELSE IF ~ticket.exists THEN Finish(r, 404, "Ticket not found")
              ELSE IF ticket.vendor # v
              THEN Finish(r, 403, "Not authorized to delete this ticket")
              ELSE IF ticket.verificationStatus = "rejected"
              THEN Finish(r, 403, "Cannot delete rejected tickets")
              ELSE [r EXCEPT !.pc = "deleteOne", !.tk = ticket]]
        /\ UNCHANGED <<fraud, db, intents, lastId, now>>

deleteTicketOneCascade(w) ==
    /\ workers[w].pc = "deleteOne"
    /\ tickets' = Remove(tickets, workers[w].id)
    /\ transactions' = {x \in transactions : x.ticket # workers[w].id}
    /\ Respond(w, 200, "Ticket deleted successfully")
    /\ UNCHANGED <<fraud, bookings, intents, lastId, now>>

\* deleteTicket: await ticket.deleteOne()
deleteTicketOne(w) ==
    /\ workers[w].pc = "deleteOne"
    /\ tickets' = Remove(tickets, workers[w].id)
    /\ Respond(w, 200, "Ticket deleted successfully")
    /\ UNCHANGED <<fraud, bookings, transactions, intents, lastId, now>>

(* ------------------------- booking handlers ---------------------------- *)

\* createBooking: POST /api/bookings (user), up to Booking.create.
createBooking(w) ==
    \E u \in Users, t \in TicketIds, q \in 0..MaxQty :
        /\ ~Busy(w)
        /\ LET r == Call("createBooking", u, t, 0, q)
               ticket == FindTicket(t)
               next ==
                 IF q <= 0
                 THEN Finish(r, 400, "Booking quantity must be at least 1")
                 ELSE IF ~ticket.exists THEN Finish(r, 404, "Ticket not found")
                 ELSE IF ticket.verificationStatus # "approved"
                 THEN Finish(r, 400, "This ticket is not available for booking")
                 ELSE IF Expired(ticket.departure)
                 THEN Finish(r, 400, "This ticket has already departed")
                 ELSE IF ~EnoughQuantity(ticket, q)
                 THEN Finish(r, 400, "Only N tickets available")
                 ELSE [r EXCEPT !.pc = "bookingCreate", !.tk = ticket] IN
           \* a call that goes on to the insert counts against MaxBookings
           /\ \/ next.pc = "done"
              \/ lastId.booking + InFlight({"bookingCreate"}) < MaxBookings
           /\ workers' = [workers EXCEPT ![w] = next]
        /\ UNCHANGED <<fraud, db, intents, lastId, now>>

\* createBooking: await Booking.create({... status: 'pending',
\* ticketSnapshot: {...}}); paymentStatus, paymentIntentId and paidAt take
\* their schema defaults.
createBookingInsert(w) ==
    /\ workers[w].pc = "bookingCreate"
    /\ lastId' = [lastId EXCEPT !.booking = @ + 1]
    /\ bookings' = bookings @@ (lastId.booking + 1 :>
           [exists |-> TRUE, ticket |-> workers[w].id,
            user |-> workers[w].user,
            bookingQuantity |-> workers[w].qty,
            totalPrice |-> TotalPrice(workers[w].tk.price, workers[w].qty),
            status |-> "pending",
            departure |-> workers[w].tk.departure,
            unitPrice |-> workers[w].tk.price,
            paymentIntentId |-> 0,
            paymentStatus |-> "unpaid",
            paidAt |-> -1])
    /\ Respond(w, 201, "Booking request created successfully")
    /\ UNCHANGED <<fraud, tickets, transactions, intents, now>>

\* acceptBooking: PUT /api/bookings/:id/accept (vendor), up to the save.
\* booking.ticket.vendor throws a TypeError when the ticket is gone.
acceptBooking(w) ==
    \E v \in Vendors, b \in BookingIds :
        /\ ~Busy(w)
        /\ LET r == Call("acceptBooking", v, b, 0, 0)
               booking == FindBooking(b)
               ticket == Populate(booking) IN
           workers' = [workers EXCEPT ![w] =
              IF ~booking.exists THEN Finish(r, 404, "Booking not found")
              ELSE IF ~ticket.exists THEN Finish(r, 500, "TypeError")
              ELSE IF ticket.vendor # v
              THEN Finish(r, 403, "Not authorized to accept this booking")
              ELSE IF ~IsPending(booking)
              THEN Finish(r, 400, "Cannot accept booking with status")
              ELSE IF Expired(booking.departure)
              THEN Finish(r, 400, "Cannot accept booking for expired ticket")
              ELSE [r EXCEPT !.pc = "acceptSave", !.bk = booking]]
        /\ UNCHANGED <<fraud, db, intents, lastId, now>>

\* acceptBooking: booking.status = 'accepted'; await booking.save()
acceptBookingSave(w) ==
    /\ workers[w].pc = "acceptSave"
    /\ LET b == workers[w].id IN
       IF b \in DOMAIN bookings
       THEN /\ bookings' = [bookings EXCEPT ![b].status = "accepted"]
            /\ Respond(w, 200, "Booking accepted successfully")
       ELSE /\ Respond(w, 500, "DocumentNotFoundError")
            /\ UNCHANGED bookings
    /\ UNCHANGED <<fraud, tickets, transactions, intents, lastId, now>>

\* rejectBooking: PUT /api/bookings/:id/reject (vendor), up to the save.
rejectBooking(w) ==
    \E v \in Vendors, b \in BookingIds :
        /\ ~Busy(w)
        /\ LET r == Call("rejectBooking", v, b, 0, 0)
               booking == FindBooking(b)
               ticket == Populate(booking) IN
           workers' = [workers EXCEPT ![w] =
              IF ~booking.exists THEN Finish(r, 404, "Booking not found")
              ELSE IF ~ticket.exists THEN Finish(r, 500, "TypeError")
              ELSE IF ticket.vendor # v
              THEN Finish(r, 403, "Not authorized to reject this booking")
              ELSE IF ~IsPending(booking)
              THEN Finish(r, 400, "Cannot reject booking with status")
              ELSE [r EXCEPT !.pc = "rejectSave", !.bk = booking]]
        /\ UNCHANGED <<fraud, db, intents, lastId, now>>

\* rejectBooking: booking.status = 'rejected'; await booking.save()
rejectBookingSave(w) ==
    /\ workers[w].pc = "rejectSave"
    /\ LET b == workers[w].id IN
       IF b \in DOMAIN bookings
       THEN /\ bookings' = [bookings EXCEPT ![b].status = "rejected"]
            /\ Respond(w, 200, "Booking rejected")
       ELSE /\ Respond(w, 500, "DocumentNotFoundError")
            /\ UNCHANGED bookings
    /\ UNCHANGED <<fraud, tickets, transactions, intents, lastId, now>>

\* cancelBooking: DELETE /api/bookings/:id (user), up to the deleteOne.
cancelBooking(w) ==
    \E u \in Users, b \in BookingIds :
        /\ ~Busy(w)
        /\ LET r == Call("cancelBooking", u, b, 0, 0)
               booking == FindBooking(b) IN
           workers' = [workers EXCEPT ![w] =
              IF ~booking.exists THEN Finish(r, 404, "Booking not found")
              ELSE IF ~OwnedBy(booking, u)
              THEN Finish(r, 403, "Not authorized to cancel this booking")
              ELSE IF ~IsPending(booking)
              THEN Finish(r, 400, "Can only cancel pending bookings")
              ELSE [r EXCEPT !.pc = "cancelDelete", !.bk = booking]]
        /\ UNCHANGED <<fraud, db, intents, lastId, now>>

\* cancelBooking: await booking.deleteOne()
cancelBookingDelete(w) ==
    /\ workers[w].pc = "cancelDelete"
    /\ bookings' = Remove(bookings, workers[w].id)
    /\ Respond(w, 200, "Booking cancelled successfully")
    /\ UNCHANGED <<fraud, tickets, transactions, intents, lastId, now>>

(* ------------------------- payment handlers ---------------------------- *)

\* createPaymentIntent: POST /api/payments/create-payment-intent (user), up
\* to the second read of the ticket.
createPaymentIntent(w) ==
    \E u \in Users, b \in BookingIds :
        /\ ~Busy(w)
        /\ LET r == Call("createPaymentIntent", u, b, 0, 0)
               booking == FindBooking(b)
               next ==
                 IF ~booking.exists THEN Finish(r, 404, "Booking not found")
                 ELSE IF ~OwnedBy(booking, u)
                 THEN Finish(r, 403, "Not authorized to pay for this booking")
                 ELSE IF booking.status # "accepted"
                 THEN Finish(r, 400, "Cannot pay for booking with status")
                 ELSE IF booking.paymentStatus = "paid"
                 THEN Finish(r, 400, "This booking is already paid")
                 ELSE IF Expired(booking.departure)
                 THEN Finish(r, 400, "Cannot pay for expired ticket")
                 ELSE [r EXCEPT !.pc = "intentTicket", !.bk = booking,
                                !.pop = Populate(booking)] IN
           \* a call that goes on to Stripe counts against MaxIntents
           /\ \/ next.pc = "done"
              \/ Cardinality(DOMAIN intents)
                   + InFlight({"intentTicket", "intentStripe"}) < MaxIntents
           /\ workers' = [workers EXCEPT ![w] = next]
        /\ UNCHANGED <<fraud, db, intents, lastId, now>>

\* createPaymentIntent: const ticket = await Ticket.findById(booking.ticket)
\* (null when the populated ticket was null) and the availability test.
createPaymentIntentTicket(w) ==
    /\ workers[w].pc = "intentTicket"
    /\ LET r == workers[w]
           ticket == IF r.pop.exists THEN FindTicket(r.bk.ticket) ELSE NoDoc IN
       workers' = [workers EXCEPT ![w] =
          IF ~ticket.exists \/ ticket.quantity < r.bk.bookingQuantity
          THEN Finish(r, 400, "Ticket no longer available")
          ELSE [r EXCEPT !.pc = "intentStripe", !.tk = ticket]]
    /\ UNCHANGED <<fraud, db, intents, lastId, now>>

\* createPaymentIntent: await stripe.paymentIntents.create(...).  Stripe
\* answers with a new intent, or the call throws.
createPaymentIntentStripe(w) ==
    /\ workers[w].pc = "intentStripe"
    /\ \/ LET i == Cardinality(DOMAIN intents) + 1 IN
          /\ intents' = intents @@ (i :> "requires_payment_method")
          /\ workers' = [workers EXCEPT ![w] =
                 [@ EXCEPT !.pc = "intentSave", !.intent = i]]
       \/ /\ Respond(w, 500, "StripeError")
          /\ UNCHANGED intents
    /\ UNCHANGED <<fraud, db, lastId, now>>

createPaymentIntentSaveMutant(w) ==
    /\ workers[w].pc = "intentSave"
    /\ LET b == workers[w].id IN
       IF b \in DOMAIN bookings
       THEN /\ bookings' = [bookings EXCEPT
                               ![b].paymentIntentId = workers[w].intent,
                               ![b].paymentStatus = "paid"]
            /\ Respond(w, 200, "clientSecret")
       ELSE /\ Respond(w, 500, "DocumentNotFoundError")
            /\ UNCHANGED bookings
    /\ UNCHANGED <<fraud, tickets, transactions, intents, lastId, now>>

\* createPaymentIntent: booking.paymentIntentId = paymentIntent.id;
\* await booking.save()
createPaymentIntentSave(w) ==
    /\ workers[w].pc = "intentSave"
    /\ LET b == workers[w].id IN
       IF b \in DOMAIN bookings
       THEN /\ bookings' = [bookings EXCEPT
                               ![b].paymentIntentId = workers[w].intent]
            /\ Respond(w, 200, "clientSecret")
       ELSE /\ Respond(w, 500, "DocumentNotFoundError")
            /\ UNCHANGED bookings
    /\ UNCHANGED <<fraud, tickets, transactions, intents, lastId, now>>

\* confirmPayment: POST /api/payments/confirm-payment (user), up to the
\* Stripe round trip.  The paymentIntentId is the one in the request body:
\* none (0), or the id of any intent Stripe holds.
confirmPayment(w) ==
    \E u \in Users, b \in BookingIds, i \in {0} \cup DOMAIN intents :
        /\ ~Busy(w)
        /\ LET r == Call("confirmPayment", u, b, i, 0)
               booking == FindBooking(b) IN
           workers' = [workers EXCEPT ![w] =
              IF i = 0
              THEN Finish(r, 400, "Please provide booking ID and payment intent ID")
              ELSE IF ~booking.exists THEN Finish(r, 404, "Booking not found")
              ELSE IF ~OwnedBy(booking, u) THEN Finish(r, 403, "Not authorized")
              ELSE [r EXCEPT !.pc = "confirmStripe", !.bk = booking,
                             !.pop = Populate(booking)]]
        /\ UNCHANGED <<fraud, db, intents, lastId, now>>

\* The guards of confirmPayment between the Stripe answer and the first
\* write, on the booking document the handler loaded: "" lets it proceed.
ConfirmGuardAnyStatus(status, booking) ==
    IF booking.paymentStatus = "paid" THEN "Payment already processed" ELSE ""
ConfirmGuardMutant(status, booking) ==
    IF status # "succeeded" THEN "Payment not completed" ELSE ""
ConfirmGuard(status, booking) ==
    IF status # "succeeded" THEN "Payment not completed"
    ELSE IF booking.paymentStatus = "paid" THEN "Payment already processed"
    ELSE ""

confirmPaymentRetrieveMutant(w) ==
    /\ workers[w].pc = "confirmStripe"
    /\ LET r == workers[w] IN
       \/ /\ r.intent \in DOMAIN intents
          /\ LET refusal == ConfirmGuard(intents[r.intent], r.bk) IN
             workers' = [workers EXCEPT ![w] =
                IF refusal # "" THEN Finish(r, 400, refusal)
                ELSE [r EXCEPT !.pc = "confirmSaveBooking",
                               !.bk.status = "paid",
                               !.bk.paymentStatus = "paid",
                               !.bk.paidAt = now]]
          /\ UNCHANGED bookings
       \/ /\ Respond(w, 500, "StripeError")
          /\ bookings' = [b \in DOMAIN bookings |->
                 IF b = r.id THEN [bookings[b] EXCEPT !.status = "paid"]
                 ELSE bookings[b]]
    /\ UNCHANGED <<fraud, tickets, transactions, intents, lastId, now>>

\* confirmPayment: await stripe.paymentIntents.retrieve(paymentIntentId),
\* which throws for an unknown id or a failed call; then the guards, and the
\* handler marks its booking document paid.
confirmPaymentRetrieve(w) ==
    /\ workers[w].pc = "confirmStripe"
    /\ LET r == workers[w] IN
       \/ /\ r.intent \in DOMAIN intents
          /\ LET refusal == ConfirmGuard(intents[r.intent], r.bk) IN
             workers' = [workers EXCEPT ![w] =
                IF refusal # "" THEN Finish(r, 400, refusal)
                ELSE [r EXCEPT !.pc = "confirmSaveBooking",
                               !.bk.status = "paid",
                               !.bk.paymentStatus = "paid",
                               !.bk.paidAt = now]]
       \/ Respond(w, 500, "StripeError")
    /\ UNCHANGED <<fraud, db, intents, lastId, now>>

\* confirmPayment: await booking.save() of status, paymentStatus, paidAt.
confirmPaymentSaveBooking(w) ==
    /\ workers[w].pc = "confirmSaveBooking"
    /\ LET r == workers[w]
           b == r.id IN
       IF b \in DOMAIN bookings
       THEN /\ bookings' = [bookings EXCEPT
                   ![b].status = r.bk.status,
                   ![b].paymentStatus = r.bk.paymentStatus,
                   ![b].paidAt = r.bk.paidAt]
            /\ workers' = [workers EXCEPT ![w].pc = "confirmFindTicket"]
       ELSE /\ Respond(w, 500, "DocumentNotFoundError")
            /\ UNCHANGED bookings
    /\ UNCHANGED <<fraud, tickets, transactions, intents, lastId, now>>

\* confirmPayment: const ticket = await Ticket.findById(booking.ticket._id);
\* booking.ticket is the populated document, and ._id of null throws.
confirmPaymentFindTicket(w) ==
    /\ workers[w].pc = "confirmFindTicket"
    /\ LET r == workers[w]
           ticket == FindTicket(r.bk.ticket) IN
       workers' = [workers EXCEPT ![w] =
          IF ~r.pop.exists THEN Finish(r, 500, "TypeError")
          ELSE IF ticket.exists
          THEN [r EXCEPT !.pc = "confirmSaveTicket", !.tk = ticket]
          ELSE [r EXCEPT !.pc = "confirmTransaction"]]
    /\ UNCHANGED <<fraud, db, intents, lastId, now>>

confirmPaymentSaveTicketMutant(w) ==
    /\ workers[w].pc = "confirmSaveTicket"
    /\ workers' = [workers EXCEPT ![w].pc = "confirmTransaction"]
    /\ UNCHANGED <<fraud, db, intents, lastId, now>>

\* confirmPayment: ticket.quantity -= booking.bookingQuantity;
\* await ticket.save()
confirmPaymentSaveTicket(w) ==
    /\ workers[w].pc = "confirmSaveTicket"
    /\ LET r == workers[w]
           t == r.bk.ticket
           q == r.tk.quantity - r.bk.bookingQuantity IN
       IF ~QuantityValid(q)
       THEN /\ Respond(w, 500, "Quantity cannot be negative")
            /\ UNCHANGED tickets
       ELSE IF t \in DOMAIN tickets
       THEN /\ tickets' = [tickets EXCEPT ![t].quantity = q]
            /\ workers' = [workers EXCEPT ![w].pc = "confirmTransaction"]
       ELSE /\ Respond(w, 500, "DocumentNotFoundError")
            /\ UNCHANGED tickets
    /\ UNCHANGED <<fraud, bookings, transactions, intents, lastId, now>>

\* confirmPayment: await Transaction.create({... transactionId:
\* paymentIntent.id ...}) and the 200 response.
confirmPaymentTransaction(w) ==
    /\ workers[w].pc = "confirmTransaction"
    /\ LET r == workers[w] IN
       IF TransactionIdFree(r.intent)
       THEN /\ transactions' = transactions \cup
                   {[user |-> r.user, booking |-> r.id,
                     ticket |-> r.bk.ticket, transactionId |-> r.intent,
                     amount |-> r.bk.totalPrice]}
            /\ Respond(w, 200, "Payment successful")
       ELSE /\ Respond(w, 500, "E11000 duplicate key")
            /\ UNCHANGED transactions
    /\ UNCHANGED <<fraud, tickets, bookings, intents, lastId, now>>

(* ----------------------------- environment ----------------------------- *)

\* The buyer pays on the Stripe form: the intent's charge succeeds.
StripePay ==
    \E i \in DOMAIN intents :
        /\ intents[i] = "requires_payment_method"
        /\ intents' = [intents EXCEPT ![i] = "succeeded"]
        /\ UNCHANGED <<fraud, db, lastId, now, workers>>

\* Time passes.
Tick ==
    /\ now < MaxTime
    /\ now' = now + 1
    /\ UNCHANGED <<fraud, db, intents, lastId, workers>>

(* --------------------------- specifications ---------------------------- *)

\* A request arrives at a worker, or the round trip a worker waits for
\* completes and its handler runs on.
Next ==
    \/ \E w \in DOMAIN workers :
          \/ createTicket(w) \/ approveTicket(w) \/ updateTicket(w)
          \/ deleteTicket(w)
          \/ createBooking(w) \/ acceptBooking(w) \/ rejectBooking(w)
          \/ cancelBooking(w)
          \/ createPaymentIntent(w) \/ confirmPayment(w)
    \/ \E w \in DOMAIN workers :
          \/ approveTicketSave(w) \/ updateTicketSave(w) \/ deleteTicketOne(w)
          \/ createBookingInsert(w) \/ acceptBookingSave(w)
          \/ rejectBookingSave(w) \/ cancelBookingDelete(w)
          \/ createPaymentIntentTicket(w) \/ createPaymentIntentStripe(w)
          \/ createPaymentIntentSave(w)
          \/ confirmPaymentRetrieve(w) \/ confirmPaymentSaveBooking(w)
          \/ confirmPaymentFindTicket(w) \/ confirmPaymentSaveTicket(w)
          \/ confirmPaymentTransaction(w)
    \/ StripePay
    \/ Tick

\* One worker: requests are served one at a time.
Spec == Init /\ [][Next]_vars

(* Concurrent requests.  The database starts with what sequential runs    *)
(* leave behind: an approved ticket and the buyers' bookings of it.        *)

Listed(q) ==
    1 :> [exists |-> TRUE, vendor |-> "v1", quantity |-> q, price |-> Price,
          verificationStatus |-> "approved", isAdvertised |-> FALSE,
          departure |-> DepartureAt]

Booked(b, q, status, intent) ==
    [exists |-> TRUE, ticket |-> 1,
     user |-> IF b = 1 THEN "u1" ELSE "u2",
     bookingQuantity |-> q, totalPrice |-> Price * q, status |-> status,
     departure |-> DepartureAt, unitPrice |-> Price,
     paymentIntentId |-> intent, paymentStatus |-> "unpaid", paidAt |-> -1]

\* A pending booking of a ticket, nothing paid for yet.
InitConc ==
    /\ tickets = Listed(MaxQty)
    /\ bookings = (1 :> Booked(1, 1, "pending", 0))
    /\ transactions = {}
    /\ fraud = {}
    /\ intents = <<>>
    /\ lastId = [ticket |-> 1, booking |-> 1]
    /\ now = 0
    /\ workers = [w \in Workers |-> Idle]

NextConc ==
    \/ \E w \in Workers :
          \/ updateTicket(w) \/ deleteTicket(w)
          \/ acceptBooking(w) \/ rejectBooking(w) \/ cancelBooking(w)
          \/ createPaymentIntent(w) \/ confirmPayment(w)
    \/ \E w \in Workers :
          \/ updateTicketSave(w) \/ deleteTicketOne(w)
          \/ acceptBookingSave(w) \/ rejectBookingSave(w)
          \/ cancelBookingDelete(w)
          \/ createPaymentIntentTicket(w) \/ createPaymentIntentStripe(w)
          \/ createPaymentIntentSave(w)
          \/ confirmPaymentRetrieve(w) \/ confirmPaymentSaveBooking(w)
          \/ confirmPaymentFindTicket(w) \/ confirmPaymentSaveTicket(w)
          \/ confirmPaymentTransaction(w)
    \/ StripePay

SpecConc == InitConc /\ [][NextConc]_vars

\* The capture scenario: a ticket with quantity ScenarioQty and accepted bookings of
\* it, each with its own payment intent, whose charge succeeded.  Only
\* confirmations are called, by any caller, for any booking, with any intent.
InitCapture ==
    /\ tickets = Listed(ScenarioQty)
    /\ bookings \in [BookingIds -> {Booked(b, q, "accepted", b) :
                                      b \in BookingIds, q \in 1..2}]
    /\ \A b \in BookingIds : bookings[b] = Booked(b, bookings[b].bookingQuantity, "accepted", b)
    /\ transactions = {}
    /\ fraud = {}
    /\ intents = [i \in BookingIds |-> "succeeded"]
    /\ lastId = [ticket |-> 1, booking |-> MaxBookings]
    /\ now = 0
    /\ workers = [w \in Workers |-> Idle]

NextCapture ==
    \/ \E w \in Workers : confirmPayment(w)
    \/ \E w \in Workers :
          \/ confirmPaymentRetrieve(w) \/ confirmPaymentSaveBooking(w)
          \/ confirmPaymentFindTicket(w) \/ confirmPaymentSaveTicket(w)
          \/ confirmPaymentTransaction(w)

SpecCapture == InitCapture /\ [][NextCapture]_vars

\* The sequential scenario: an approved ticket with quantity ScenarioQty
\* and price Price, no booking yet; buyers book, the vendor accepts, buyers
\* pay.  One worker: requests are served one at a time.
InitScenario ==
    /\ tickets = Listed(ScenarioQty)
    /\ bookings = <<>>
    /\ transactions = {}
    /\ fraud = {}
    /\ intents = <<>>
    /\ lastId = [ticket |-> 1, booking |-> 0]
    /\ now = 0
    /\ workers = [w \in {"w1"} |-> Idle]

NextScenario ==
    \/ \E w \in DOMAIN workers :
          \/ createBooking(w) \/ acceptBooking(w)
          \/ createPaymentIntent(w) \/ confirmPayment(w)
    \/ \E w \in DOMAIN workers :
          \/ createBookingInsert(w) \/ acceptBookingSave(w)
          \/ createPaymentIntentTicket(w) \/ createPaymentIntentStripe(w)
          \/ createPaymentIntentSave(w)
          \/ confirmPaymentRetrieve(w) \/ confirmPaymentSaveBooking(w)
          \/ confirmPaymentFindTicket(w) \/ confirmPaymentSaveTicket(w)
          \/ confirmPaymentTransaction(w)
    \/ StripePay

SpecScenario == InitScenario /\ [][NextScenario]_vars

(* The vendor changes the terms of a ticket, or deletes it, while buyers  *)
(* book it and pay for it.                                                *)

InitTerms == InitScenario

NextTerms ==
    \/ \E w \in DOMAIN workers :
          \/ updateTicketTerms(w) \/ deleteTicket(w)
          \/ createBooking(w) \/ acceptBooking(w)
          \/ createPaymentIntent(w) \/ confirmPayment(w)
    \/ \E w \in DOMAIN workers :
          \/ updateTicketTermsSave(w) \/ deleteTicketOne(w)
          \/ createBookingInsert(w) \/ acceptBookingSave(w)
          \/ createPaymentIntentTicket(w) \/ createPaymentIntentStripe(w)
          \/ createPaymentIntentSave(w)
          \/ confirmPaymentRetrieve(w) \/ confirmPaymentSaveBooking(w)
          \/ confirmPaymentFindTicket(w) \/ confirmPaymentSaveTicket(w)
          \/ confirmPaymentTransaction(w)
    \/ StripePay

SpecTerms == InitTerms /\ [][NextTerms]_vars

(* The buyer keeps confirming.  An accepted booking whose charge has      *)
(* succeeded; its buyer sends confirm-payment again and again while the   *)
(* vendor edits the ticket's quantity.  Every handler that was entered    *)
(* runs to its response, and the buyer's confirm is sent again whenever   *)
(* the server is free for it.                                             *)

InitRetry ==
    /\ tickets = Listed(MaxQty)
    /\ bookings = (1 :> Booked(1, MaxQty, "accepted", 1))
    /\ transactions = {}
    /\ fraud = {}
    /\ intents = (1 :> "succeeded")
    /\ lastId = [ticket |-> 1, booking |-> 1]
    /\ now = 0
    /\ workers = [w \in {"w1"} |-> Idle]

\* The continuations of the handlers, which the event loop runs.
RetrySteps ==
    \E w \in DOMAIN workers :
       \/ updateTicketSave(w)
       \/ confirmPaymentRetrieve(w) \/ confirmPaymentSaveBooking(w)
       \/ confirmPaymentFindTicket(w) \/ confirmPaymentSaveTicket(w)
       \/ confirmPaymentTransaction(w)

\* A confirm of the buyer's own booking, which passes the first guards.
RetryConfirm ==
    \E w \in DOMAIN workers :
       confirmPayment(w) /\ workers'[w].pc = "confirmStripe"

NextRetry ==
    \/ \E w \in DOMAIN workers : updateTicket(w) \/ confirmPayment(w)
    \/ RetrySteps

SpecRetry ==
    /\ InitRetry /\ [][NextRetry]_vars
    /\ WF_vars(RetrySteps)
    /\ SF_vars(RetryConfirm)

(* The admin's desk.  Vendor v1 lists one ticket more than may be         *)
(* advertised; the admin approved them all and advertised all but the     *)
(* last.                                                                  *)

InitAdmin ==
    /\ tickets = [t \in 1..(AdvertiseLimit + 1) |->
          [exists |-> TRUE, vendor |-> "v1", quantity |-> MaxQty,
           price |-> Price, verificationStatus |-> "approved",
           isAdvertised |-> (t <= AdvertiseLimit), departure |-> DepartureAt]]
    /\ bookings = <<>>
    /\ transactions = {}
    /\ fraud = {}
    /\ intents = <<>>
    /\ lastId = [ticket |-> AdvertiseLimit + 1, booking |-> 0]
    /\ now = 0
    /\ workers = [w \in Workers |-> Idle]

NextAdmin ==
    \/ approveTicket("w1") \/ approveTicketSave("w1")
    \/ rejectTicket("w1") \/ rejectTicketSave("w1")
    \/ toggleAdvertiseTicket("w1") \/ toggleAdvertiseCount("w1")
    \/ toggleAdvertiseSave("w1")
    \/ markVendorAsFraud("w1") \/ markVendorAsFraudSave("w1")
    \/ markVendorAsFraudTickets("w1")

SpecAdmin == InitAdmin /\ [][NextAdmin]_vars

(* ------------------------------- claims -------------------------------- *)

Paid(b) == b \in DOMAIN bookings /\ bookings[b].status = "paid"

\* The quantity of ticket t that paid bookings hold.
PaidQuantity(t) ==
    SumOver({b \in DOMAIN bookings : bookings[b].ticket = t /\ Paid(b)},
            [b \in DOMAIN bookings |-> bookings[b].bookingQuantity])

TransactionsOf(b) == {x \in transactions : x.booking = b}

\* Worker w answered a confirmation of booking b that its owner sent and
\* whose charge Stripe reported, and that was not a retry of a paid booking.
Captured(w, b) ==
    /\ workers[w].pc = "done"
    /\ workers[w].op = "confirmPayment"
    /\ workers[w].id = b
    /\ workers[w].msg \notin {"Please provide booking ID and payment intent ID",
                              "Booking not found", "Not authorized",
                              "StripeError", "Payment not completed",
                              "Payment already processed"}

\* No request is in flight.
Quiet == \A w \in DOMAIN workers : ~Busy(w)

\* C1: however the confirmations of concurrent workers interleave, the
\* bookings of a ticket that reached status paid never hold more than the
\* quantity the ticket had before the captures began.  Stated of the
\* states in which every confirmation has returned.
C1_NoOversell ==
    Quiet => \A t \in DOMAIN tickets : PaidQuantity(t) <= ScenarioQty

\* C2: ticket of quantity 3, two accepted bookings of quantity 2, both
\* confirmed with succeeded charges: exactly one confirmation succeeds and
\* leaves the ticket at quantity 1; the other fails and its booking stays
\* accepted and unpaid.
C2_OneCaptureWins ==
    \A w1, w2 \in Workers :
        ( /\ w1 # w2
          /\ bookings[1].bookingQuantity = 2
          /\ bookings[2].bookingQuantity = 2
          /\ Captured(w1, 1)
          /\ Captured(w2, 2) )
        => \E win \in {w1, w2} :
              LET lose == CHOOSE w \in {w1, w2} : w # win IN
              /\ workers[win].code = 200
              /\ workers[lose].code # 200
              /\ tickets[1].quantity = 1
              /\ Paid(workers[win].id)
              /\ bookings[workers[lose].id].status = "accepted"
              /\ bookings[workers[lose].id].paymentStatus = "unpaid"

\* C4: when confirmations of the same booking run concurrently, the ticket
\* loses the booking's quantity at most once (it never holds less than its
\* starting quantity minus what paid bookings hold) and the booking gets at
\* most one Transaction.
C4_CapturedOnce ==
    /\ \A t \in DOMAIN tickets :
          tickets[t].quantity >= ScenarioQty - PaidQuantity(t)
    /\ \A b \in DOMAIN bookings : Cardinality(TransactionsOf(b)) <= 1

\* Worker w takes the step that ends its request.
Returns(w) == Busy(w) /\ workers'[w].pc = "done"

\* C3: confirm is all-or-nothing.  When a confirmation of a booking that
\* was unpaid when the handler loaded it returns, with success or with an
\* error, the booking is paid if and only if the ticket lost the booking's
\* quantity and a Transaction of the booking exists.
C3_AllOrNothing ==
    [][\A w \in DOMAIN workers :
        ( /\ workers[w].op = "confirmPayment"
          /\ Returns(w)
          /\ \/ workers[w].pc # "confirmStripe"
             \/ workers[w].bk.paymentStatus = "unpaid" )
        => LET r == workers[w]
               paid == r.id \in DOMAIN bookings'
                         /\ bookings'[r.id].status = "paid"
               reduced == /\ r.pop.exists
                          /\ r.bk.ticket \in DOMAIN tickets'
                          /\ tickets'[r.bk.ticket].quantity
                               = r.pop.quantity - r.bk.bookingQuantity
               recorded == \E x \in transactions' : x.booking = r.id
           IN paid <=> (reduced /\ recorded)]_vars

\* C5: a confirmation of a booking whose earlier confirmation ran to its
\* end (its Transaction was inserted, the step that answers 200), sent by
\* the owner with a succeeded charge, answers 400 "Payment already
\* processed", leaves exactly one Transaction of the booking and changes no
\* booking and no ticket.
C5_RetryAlreadyPaid ==
    [][\A w \in DOMAIN workers :
        ( /\ workers[w].op = "confirmPayment"
          /\ workers[w].pc = "confirmStripe"
          /\ TransactionsOf(workers[w].id) # {}
          /\ intents[workers[w].intent] = "succeeded"
          /\ workers'[w] # workers[w]
          /\ workers'[w].msg # "StripeError" )
        => /\ workers'[w].pc = "done"
           /\ workers'[w].code = 400
           /\ workers'[w].msg = "Payment already processed"
           /\ Cardinality({x \in transactions' :
                              x.booking = workers[w].id}) = 1
           /\ bookings' = bookings
           /\ tickets' = tickets]_vars

\* C5's case: the retry of a captured booking was answered.
C5_Witness ==
    \E w \in DOMAIN workers :
        /\ workers[w].pc = "done"
        /\ workers[w].op = "confirmPayment"
        /\ workers[w].msg = "Payment already processed"
        /\ TransactionsOf(workers[w].id) # {}

\* C6: every change of a booking's status is pending -> accepted,
\* pending -> rejected, accepted -> paid, or the deletion of a pending
\* booking.
C6_LegalTransitions ==
    [][\A b \in DOMAIN bookings :
        IF b \notin DOMAIN bookings'
        THEN bookings[b].status = "pending"
        ELSE \/ bookings'[b].status = bookings[b].status
             \/ <<bookings[b].status, bookings'[b].status>> \in
                   {<<"pending", "accepted">>, <<"pending", "rejected">>,
                    <<"accepted", "paid">>}]_vars

\* C7: a rejected or paid booking keeps its status and is never deleted,
\* no booking returns to pending, and a handler that loads a rejected or
\* paid booking answers with an error at its guards and goes no further.
C7_TerminalStates ==
    [][/\ \A b \in DOMAIN bookings :
            /\ bookings[b].status \in {"rejected", "paid"}
                 => /\ b \in DOMAIN bookings'
                    /\ bookings'[b].status = bookings[b].status
            /\ (bookings[b].status # "pending" /\ b \in DOMAIN bookings')
                 => bookings'[b].status # "pending"
       /\ \A w \in DOMAIN workers :
            /\ ( /\ ~Busy(w)
                 /\ workers'[w] # workers[w]
                 /\ workers'[w].op \in {"acceptBooking", "rejectBooking",
                        "cancelBooking", "createPaymentIntent"}
                 /\ workers'[w].id \in DOMAIN bookings
                 /\ bookings[workers'[w].id].status \in {"rejected", "paid"} )
               => (workers'[w].pc = "done" /\ workers'[w].code # 200)
            /\ ( /\ workers[w].pc = "confirmStripe"
                 /\ workers'[w] # workers[w]
                 /\ workers[w].bk.status \in {"rejected", "paid"} )
               => (workers'[w].pc = "done" /\ workers'[w].code # 200)]_vars

\* C8: when no confirmation is in progress, every paid booking has exactly
\* one Transaction.
C8_OneTransactionPerPaid ==
    (\A w \in DOMAIN workers :
        ~(Busy(w) /\ workers[w].op = "confirmPayment"))
    => \A b \in DOMAIN bookings :
          Paid(b) => Cardinality(TransactionsOf(b)) = 1

\* C9: the stored quantity of every ticket is >= 0 in every reachable
\* state, whatever the interleaving of the requests.
C9_QuantityNonNegative ==
    \A t \in DOMAIN tickets : tickets[t].quantity >= 0

\* C9's case: a write that would have made the quantity negative was
\* attempted, by a capture or by the vendor's edit.
C9_Witness ==
    \E w \in DOMAIN workers :
        /\ workers[w].pc = "done"
        /\ workers[w].msg = "Quantity cannot be negative"
        /\ workers[w].op = "confirmPayment"

\* C10: a booking whose paymentStatus is paid has status paid.
C10_PaidImpliesStatusPaid ==
    \A b \in DOMAIN bookings :
        bookings[b].paymentStatus = "paid" => bookings[b].status = "paid"

\* Worker w takes the first step of a call of handler op: the request
\* arrives and the handler runs to its first database round trip.
Arrives(w, op) ==
    ~Busy(w) /\ workers'[w] # workers[w] /\ workers'[w].op = op

\* The call of worker w was answered at this step with code and nothing
\* else changed in the bookings, the tickets, the ledger or at Stripe.
Refused(w, code) ==
    /\ workers'[w].pc = "done"
    /\ workers'[w].code = code
    /\ UNCHANGED <<db, intents>>

\* C11: createIntent asks Stripe for an intent only for a booking the
\* caller owns, that is accepted, not paid and not departed when the call
\* arrives, and whose live ticket holds at least the booking's quantity;
\* a call that fails one of these tests is answered 404, 403 or 400 at that
\* test and changes neither the booking nor Stripe.
C11_CreateIntentGuards ==
    [][\A w \in DOMAIN workers :
        /\ Arrives(w, "createPaymentIntent")
             => LET b == workers'[w].id
                    u == workers'[w].user IN
                IF b \notin DOMAIN bookings THEN Refused(w, 404)
                ELSE IF bookings[b].user # u THEN Refused(w, 403)
                ELSE IF \/ bookings[b].status # "accepted"
                        \/ bookings[b].paymentStatus = "paid"
                        \/ bookings[b].departure < now
                THEN Refused(w, 400)
                ELSE workers'[w].pc # "done" /\ UNCHANGED <<db, intents>>
        /\ (workers[w].pc = "intentTicket" /\ workers'[w] # workers[w])
             => LET t == workers[w].bk.ticket IN
                IF \/ t \notin DOMAIN tickets
                   \/ tickets[t].quantity < workers[w].bk.bookingQuantity
                THEN Refused(w, 400)
                ELSE workers'[w].pc # "done" /\ UNCHANGED <<db, intents>>
        /\ ( /\ workers[w].op = "createPaymentIntent"
             /\ workers'[w] # workers[w]
             /\ DOMAIN intents' # DOMAIN intents )
             => LET b == workers[w].id
                    t == workers[w].bk.ticket IN
                /\ b \in DOMAIN bookings
                /\ bookings[b].user = workers[w].user
                /\ bookings[b].status = "accepted"
                /\ bookings[b].paymentStatus # "paid"
                /\ t \in DOMAIN tickets
                /\ tickets[t].quantity >= bookings[b].bookingQuantity
        /\ ( /\ workers[w].op = "createPaymentIntent"
             /\ workers'[w] # workers[w]
             /\ bookings' # bookings )
             => /\ workers'[w].code = 200
                /\ bookings' = [bookings EXCEPT ![workers[w].id].paymentIntentId
                                                  = workers[w].intent]]_vars

\* C11's case: a createIntent of an accepted booking was refused because
\* the ticket no longer holds the booking's quantity.
C11_Witness ==
    \E w \in DOMAIN workers :
        /\ workers[w].pc = "done"
        /\ workers[w].op = "createPaymentIntent"
        /\ workers[w].msg = "Ticket no longer available"
        /\ workers[w].id \in DOMAIN bookings
        /\ bookings[workers[w].id].paymentIntentId = 0

\* C12: a confirm that carries both ids and is sent by a user who does not
\* own the booking is answered 403, and a confirm whose intent Stripe does
\* not report as succeeded is answered 400 "Payment not completed"; neither
\* changes a booking, a ticket or the ledger.
C12_ConfirmRefusals ==
    [][\A w \in DOMAIN workers :
        /\ ( /\ Arrives(w, "confirmPayment")
             /\ workers'[w].msg
                  # "Please provide booking ID and payment intent ID"
             /\ workers'[w].id \in DOMAIN bookings
             /\ bookings[workers'[w].id].user # workers'[w].user )
           => Refused(w, 403)
        /\ ( /\ workers[w].pc = "confirmStripe"
             /\ workers'[w] # workers[w]
             /\ intents[workers[w].intent] # "succeeded"
             /\ workers'[w].msg # "StripeError" )
           => (Refused(w, 400) /\ workers'[w].msg = "Payment not completed")]_vars

\* C12's case: a confirm was refused because the charge had not succeeded.
C12_Witness ==
    \E w \in DOMAIN workers :
        /\ workers[w].pc = "done"
        /\ workers[w].op = "confirmPayment"
        /\ workers[w].msg = "Payment not completed"
        /\ workers[w].id \in DOMAIN bookings
        /\ bookings[workers[w].id].paymentStatus = "unpaid"

\* C13: a create for a quantity of at least 1 is answered 404 when the
\* ticket is absent, and 400 when it is not approved, when its departure
\* has passed, and when the quantity exceeds the ticket's quantity; a
\* refused create inserts no booking.  A create that succeeds inserts
\* exactly one booking, pending and unpaid, of the caller.
C13_CreateBooking ==
    [][\A w \in DOMAIN workers :
        /\ (Arrives(w, "createBooking") /\ workers'[w].qty >= 1)
             => LET t == workers'[w].id
                    q == workers'[w].qty IN
                IF t \notin DOMAIN tickets
                THEN Refused(w, 404) /\ workers'[w].msg = "Ticket not found"
                ELSE IF tickets[t].verificationStatus # "approved"
                THEN /\ Refused(w, 400)
                     /\ workers'[w].msg
                          = "This ticket is not available for booking"
                ELSE IF tickets[t].departure < now
                THEN /\ Refused(w, 400)
                     /\ workers'[w].msg = "This ticket has already departed"
                ELSE IF q > tickets[t].quantity
                THEN /\ Refused(w, 400)
                     /\ workers'[w].msg = "Only N tickets available"
                ELSE workers'[w].pc = "bookingCreate" /\ UNCHANGED db
        /\ ( /\ workers[w].op = "createBooking"
             /\ workers'[w] # workers[w]
             /\ Busy(w) )
             => \E b \in DOMAIN bookings' \ DOMAIN bookings :
                   /\ DOMAIN bookings' = DOMAIN bookings \cup {b}
                   /\ \A x \in DOMAIN bookings : bookings'[x] = bookings[x]
                   /\ bookings'[b].status = "pending"
                   /\ bookings'[b].paymentStatus = "unpaid"
                   /\ bookings'[b].user = workers[w].user
                   /\ bookings'[b].ticket = workers[w].id
                   /\ bookings'[b].bookingQuantity = workers[w].qty
                   /\ workers'[w].code = 201
        /\ ( /\ workers'[w].op = "createBooking"
             /\ workers'[w] # workers[w]
             /\ workers'[w].code # 201 )
             => bookings' = bookings]_vars

\* C13's case: a create was refused because it asked for more than the
\* ticket holds, and a booking of that ticket exists from an earlier create.
C13_Witness ==
    \E w \in DOMAIN workers :
        /\ workers[w].pc = "done"
        /\ workers[w].op = "createBooking"
        /\ workers[w].msg = "Only N tickets available"
        /\ \E b \in DOMAIN bookings : bookings[b].status = "pending"

\* The vendor v owns the ticket that booking b references.
OwnsTicketOf(v, b) ==
    /\ bookings[b].ticket \in DOMAIN tickets
    /\ tickets[bookings[b].ticket].vendor = v

\* C14: accept moves a booking to accepted only when the caller is the
\* vendor who owns the booking's ticket, the booking is pending and its
\* departure has not passed when the call arrives; a caller who is not that
\* vendor is answered 403, a booking that is not pending 400, a departed
\* one 400, and the booking is unchanged.
C14_AcceptGuards ==
    [][\A w \in DOMAIN workers :
        /\ ( /\ Arrives(w, "acceptBooking")
             /\ workers'[w].id \in DOMAIN bookings )
             => LET b == workers'[w].id IN
                IF ~OwnsTicketOf(workers'[w].user, b) THEN Refused(w, 403)
                ELSE IF bookings[b].status # "pending" THEN Refused(w, 400)
                ELSE IF bookings[b].departure < now THEN Refused(w, 400)
                ELSE workers'[w].pc = "acceptSave" /\ UNCHANGED db
        /\ (workers[w].pc = "acceptSave" /\ workers'[w] # workers[w])
             => /\ bookings' = [bookings EXCEPT ![workers[w].id].status
                                                  = "accepted"]
                /\ bookings[workers[w].id].status = "pending"
                /\ OwnsTicketOf(workers[w].user, workers[w].id)]_vars

\* C15: an accept, by the vendor who owns the ticket, of a booking that is
\* already accepted is answered 400 "Cannot accept booking with status"
\* and the booking stays accepted.
C15_SecondAccept ==
    [][\A w \in DOMAIN workers :
        ( /\ Arrives(w, "acceptBooking")
          /\ workers'[w].id \in DOMAIN bookings
          /\ bookings[workers'[w].id].status = "accepted"
          /\ OwnsTicketOf(workers'[w].user, workers'[w].id) )
        => /\ Refused(w, 400)
           /\ workers'[w].msg = "Cannot accept booking with status"
           /\ bookings'[workers'[w].id].status = "accepted"]_vars

\* C15's case: the second accept of an accepted booking was answered.
C15_Witness ==
    \E w \in DOMAIN workers :
        /\ workers[w].pc = "done"
        /\ workers[w].op = "acceptBooking"
        /\ workers[w].msg = "Cannot accept booking with status"
        /\ workers[w].id \in DOMAIN bookings
        /\ bookings[workers[w].id].status = "accepted"

\* C16: reject moves a booking to rejected only when the caller is the
\* vendor who owns the booking's ticket and the booking is pending; a
\* caller who is not that vendor is answered 403 and a booking that is not
\* pending 400, and the booking is unchanged.
C16_RejectGuards ==
    [][\A w \in DOMAIN workers :
        /\ ( /\ Arrives(w, "rejectBooking")
             /\ workers'[w].id \in DOMAIN bookings )
             => LET b == workers'[w].id IN
                IF ~OwnsTicketOf(workers'[w].user, b) THEN Refused(w, 403)
                ELSE IF bookings[b].status # "pending" THEN Refused(w, 400)
                ELSE workers'[w].pc = "rejectSave" /\ UNCHANGED db
        /\ (workers[w].pc = "rejectSave" /\ workers'[w] # workers[w])
             => /\ bookings' = [bookings EXCEPT ![workers[w].id].status
                                                  = "rejected"]
                /\ bookings[workers[w].id].status = "pending"
                /\ OwnsTicketOf(workers[w].user, workers[w].id)]_vars

\* C17: a booking record disappears only by the cancel of its owner while
\* it is pending; the owner's cancel of a booking that is not pending is
\* answered 400 "Can only cancel pending bookings" and the record stays as
\* it is.
C17_CancelGuards ==
    [][/\ \A b \in DOMAIN bookings \ DOMAIN bookings' :
            /\ bookings[b].status = "pending"
            /\ \E w \in DOMAIN workers :
                  /\ workers[w].pc = "cancelDelete"
                  /\ workers'[w].pc = "done"
                  /\ workers[w].id = b
                  /\ workers[w].user = bookings[b].user
       /\ \A w \in DOMAIN workers :
            ( /\ Arrives(w, "cancelBooking")
              /\ workers'[w].id \in DOMAIN bookings
              /\ bookings[workers'[w].id].user = workers'[w].user
              /\ bookings[workers'[w].id].status # "pending" )
            => /\ Refused(w, 400)
               /\ workers'[w].msg = "Can only cancel pending bookings"]_vars

\* C17's case: the owner's cancel of an accepted booking was refused and
\* the record is still there.
C17_Witness ==
    \E w \in DOMAIN workers :
        /\ workers[w].pc = "done"
        /\ workers[w].op = "cancelBooking"
        /\ workers[w].msg = "Can only cancel pending bookings"
        /\ workers[w].id \in DOMAIN bookings
        /\ bookings[workers[w].id].status = "accepted"

\* Booking 1 is the only booking and its capture was just answered 200.
FirstCaptured ==
    /\ DOMAIN bookings = {1}
    /\ \E w \in DOMAIN workers :
          /\ workers[w].pc = "done"
          /\ workers[w].op = "confirmPayment"
          /\ workers[w].id = 1
          /\ workers[w].code = 200

\* C18: on a ticket with quantity ScenarioQty (3) and price Price (100),
\* a booking of quantity q (2) is inserted pending with totalPrice
\* q * Price (200); once the vendor accepted it and its buyer's confirm was
\* answered 200, the booking is paid, the ticket holds ScenarioQty - q (1)
\* and exactly one Transaction of it exists, with amount q * Price (200);
\* a later create for more than the ticket holds (2 > 1) is answered 400
\* "Only N tickets available" and inserts nothing.
C18_Scenario ==
    [][/\ \A b \in DOMAIN bookings' \ DOMAIN bookings :
            /\ bookings'[b].status = "pending"
            /\ bookings'[b].totalPrice = bookings'[b].bookingQuantity * Price
       /\ FirstCaptured'
            => /\ bookings'[1].status = "paid"
               /\ tickets'[1].quantity
                    = ScenarioQty - bookings'[1].bookingQuantity
               /\ \E x \in transactions' :
                     /\ {y \in transactions' : y.booking = 1} = {x}
                     /\ x.amount = bookings'[1].bookingQuantity * Price
       /\ \A w \in DOMAIN workers :
            ( /\ Arrives(w, "createBooking")
              /\ Paid(1)
              /\ workers'[w].id = 1
              /\ workers'[w].qty > tickets[1].quantity )
            => /\ Refused(w, 400)
               /\ workers'[w].msg = "Only N tickets available"]_vars

\* C18's case: buyer u1's booking of 2 is paid, the ticket holds 1, the
\* Transaction's amount is 200, and a create of 2 was just refused.
C18_Witness ==
    /\ DOMAIN bookings = {1}
    /\ bookings[1].bookingQuantity = 2
    /\ bookings[1].status = "paid"
    /\ tickets[1].quantity = 1
    /\ \E x \in transactions : x.booking = 1 /\ x.amount = 200
    /\ \E w \in DOMAIN workers :
          /\ workers[w].pc = "done"
          /\ workers[w].op = "createBooking"
          /\ workers[w].id = 1
          /\ workers[w].qty = 2
          /\ workers[w].user # bookings[1].user
          /\ workers[w].msg = "Only N tickets available"

\* C19: in every reachable state every Transaction references a booking
\* whose status is paid.
C19_TransactionOfPaid ==
    \A x \in transactions : Paid(x.booking)

\* C20: the ledger is append-only: no step removes a Transaction or
\* changes a field of one.
C20_AppendOnly ==
    [][transactions \subseteq transactions']_vars

\* C20's case: a Transaction is in the ledger and the ticket it references
\* has since been deleted by its vendor.
C20_Witness ==
    \E x \in transactions :
        /\ x.ticket \notin DOMAIN tickets
        /\ \E w \in DOMAIN workers :
              /\ workers[w].pc = "done"
              /\ workers[w].op = "deleteTicket"
              /\ workers[w].code = 200

\* C21: whatever the admin approves, rejects, advertises or flags, at most
\* six tickets are approved and advertised at the same time.
C21_AtMostSixAdvertised == AdvertisedCount <= AdvertiseLimit

\* C26: a ticket's approval state changes only from pending, to approved or
\* to rejected by the admin's decision, or to rejected when its vendor is
\* flagged as fraud; a rejected ticket never becomes approved again.
C26_ApprovalOnlyFromPending ==
    [][\A t \in DOMAIN tickets \cap DOMAIN tickets' :
          LET old == tickets[t].verificationStatus
              new == tickets'[t].verificationStatus IN
          new # old =>
             \/ /\ old = "pending"
                /\ new \in {"approved", "rejected"}
             \/ /\ new = "rejected"
                /\ \E w \in DOMAIN workers : workers[w].op = "markVendorAsFraud"]_vars


\* C22: among the booking and payment operations only a confirm that
\* succeeds changes a ticket's quantity: a quantity is written only by the
\* decrement of confirmPayment (or by the vendor's own ticket routes), and a
\* confirm answered anything but 200 leaves the ticket with the quantity the
\* handler read.
C22_OnlyConfirmChangesQuantity ==
    [][/\ \A t \in DOMAIN tickets \cap DOMAIN tickets' :
             tickets'[t].quantity # tickets[t].quantity =>
                \E w \in DOMAIN workers :
                   /\ workers'[w] # workers[w]
                   /\ workers[w].op \in {"confirmPayment", "updateTicket"}
       /\ \A w \in DOMAIN workers :
             LET r == workers[w]
                 t == r.bk.ticket IN
             /\ r.op = "confirmPayment"
             /\ r.pc # "done"
             /\ workers'[w].pc = "done"
             /\ workers'[w].code # 200
             /\ r.tk.exists
             /\ t \in DOMAIN tickets'
             => tickets'[t].quantity = r.tk.quantity]_vars

\* C23: a booking is created with totalPrice = quantity * the ticket's unit
\* price and with the ticket's price and departure as its snapshot; no later
\* operation changes them, whatever the vendor does to the ticket; and the
\* amount of a Transaction is the totalPrice of its booking.
C23_PriceFixedAtCreation ==
    [][/\ \A b \in DOMAIN bookings' \ DOMAIN bookings :
             LET n == bookings'[b] IN
             /\ n.ticket \in DOMAIN tickets
             /\ n.unitPrice = tickets[n.ticket].price
             /\ n.departure = tickets[n.ticket].departure
             /\ n.totalPrice = n.bookingQuantity * n.unitPrice
       /\ \A b \in DOMAIN bookings \cap DOMAIN bookings' :
             /\ bookings'[b].totalPrice = bookings[b].totalPrice
             /\ bookings'[b].unitPrice = bookings[b].unitPrice
             /\ bookings'[b].departure = bookings[b].departure
             /\ bookings'[b].bookingQuantity = bookings[b].bookingQuantity
       /\ \A x \in transactions' \ transactions :
             /\ x.booking \in DOMAIN bookings
             /\ x.amount = bookings[x.booking].totalPrice]_vars

\* A capture of a booking whose ticket has changed its price since.
C23_Witness ==
    \E x \in transactions :
       /\ x.booking \in DOMAIN bookings
       /\ x.ticket \in DOMAIN tickets
       /\ bookings[x.booking].bookingQuantity > 1
       /\ tickets[x.ticket].price # bookings[x.booking].unitPrice
       /\ x.amount = bookings[x.booking].bookingQuantity
                        * bookings[x.booking].unitPrice

\* C24: a createPaymentIntent that succeeds stores the new intent's id on its
\* booking and changes nothing else: the booking stays accepted, unpaid,
\* with no paidAt; no other booking, no ticket and no Transaction changes,
\* at the save or at any earlier step of the call.
C24_CreateIntentFrame ==
    [][\A w \in DOMAIN workers :
          LET r == workers[w]
              b == r.id IN
          /\ workers'[w] # r
          /\ workers'[w].op = "createPaymentIntent"
          => IF workers'[w].pc = "done" /\ workers'[w].code = 200
             THEN /\ r.intent \in DOMAIN intents
                  /\ bookings' = [bookings EXCEPT
                                     ![b].paymentIntentId = r.intent]
                  /\ bookings'[b].status = "accepted"
                  /\ bookings'[b].paymentStatus = "unpaid"
                  /\ bookings'[b].paidAt = -1
                  /\ UNCHANGED <<tickets, transactions>>
             ELSE UNCHANGED db]_vars

\* A createPaymentIntent was answered 200 and its booking holds the intent.
C24_Witness ==
    \E w \in DOMAIN workers :
       /\ workers[w].op = "createPaymentIntent"
       /\ workers[w].code = 200
       /\ workers[w].id \in DOMAIN bookings
       /\ bookings[workers[w].id].paymentIntentId \in DOMAIN intents

\* C25: when the Stripe call of createPaymentIntent or of confirmPayment
\* fails, the operation is answered as failed and ends there, with no
\* retry, and bookings, tickets and Transactions are as they were when the
\* call arrived: nothing is written up to the Stripe call or by the failure.
C25_StripeFailure ==
    [][\A w \in DOMAIN workers :
          LET r == workers[w]
              n == workers'[w] IN
          /\ n # r
          /\ n.op \in {"createPaymentIntent", "confirmPayment"}
          => /\ n.pc \in {"intentTicket", "intentStripe", "confirmStripe"}
                => UNCHANGED db
             /\ n.msg = "StripeError"
                => /\ n.pc = "done"
                   /\ n.code = 500
                   /\ UNCHANGED <<db, intents>>]_vars

\* The Stripe call of a confirm failed for an accepted booking whose charge
\* had succeeded, and the booking is still accepted and unpaid.
C25_Witness ==
    \E w \in DOMAIN workers :
       /\ workers[w].op = "confirmPayment"
       /\ workers[w].msg = "StripeError"
       /\ workers[w].id \in DOMAIN bookings
       /\ LET booking == bookings[workers[w].id] IN
          /\ booking.status = "accepted"
          /\ booking.paymentStatus = "unpaid"
          /\ booking.paymentIntentId \in DOMAIN intents
          /\ intents[booking.paymentIntentId] = "succeeded"

\* The bookings a step saves as paid.
BecomePaid ==
    {b \in DOMAIN bookings \cap DOMAIN bookings' :
        bookings[b].status # "paid" /\ bookings'[b].status = "paid"}

\* The confirm whose save changes booking b in this step.
Confirming(w, b) ==
    /\ workers[w].op = "confirmPayment"
    /\ workers[w].pc = "confirmSaveBooking"
    /\ workers[w].id = b
    /\ workers'[w] # workers[w]

\* C27: a charge pays for at most one booking: no booking is saved as paid
\* by a confirm that presents an intent already captured for another
\* booking.
C27_OneBookingPerCharge ==
    [][\A b \in BecomePaid : \A w \in DOMAIN workers :
          Confirming(w, b) =>
             ~\E x \in transactions :
                 /\ x.transactionId = workers[w].intent
                 /\ x.booking # b]_vars

\* C28: a booking becomes paid only after a createPaymentIntent stored an
\* intent on it, and only by a confirm that presents that stored intent.
C28_PaidThroughOwnIntent ==
    [][\A b \in BecomePaid :
          /\ bookings[b].paymentIntentId \in DOMAIN intents
          /\ \E w \in DOMAIN workers :
                /\ Confirming(w, b)
                /\ workers[w].intent = bookings[b].paymentIntentId]_vars

\* C29: no booking changes status once the departure of its snapshot has
\* passed: an accept that arrives later does not go on to its save, and no
\* booking is saved paid with a paidAt later than its departure.
C29_NoChangeAfterDeparture ==
    [][/\ \A w \in DOMAIN workers :
             /\ workers'[w] # workers[w]
             /\ workers'[w].pc = "acceptSave"
             => ~Expired(bookings[workers'[w].id].departure)
       /\ \A b \in BecomePaid :
             bookings'[b].paidAt <= bookings'[b].departure]_vars

\* A confirm of booking b failed after it had saved the booking as paid:
\* the call was answered 500 and the booking is paid with no Transaction.
PartFailed(b) ==
    /\ Paid(b)
    /\ TransactionsOf(b) = {}
    /\ \E w \in DOMAIN workers :
          /\ workers[w].op = "confirmPayment"
          /\ workers[w].id = b
          /\ workers[w].pc = "done"
          /\ workers[w].code = 500

\* C30: after a confirm that failed part-way, with the buyer retrying the
\* confirm of the succeeded charge, the booking is eventually paid with its
\* Transaction recorded: no retry sequence stays for ever with a paid
\* booking that has no Transaction.
C30_RetryCompletes ==
    \A b \in BookingIds :
       PartFailed(b) ~> (Paid(b) /\ TransactionsOf(b) # {})

====
